---- MODULE Spec2Model ----
(***************************************************************************)
(* Model of generate_exec_emails.py: a one-shot pipeline that loads a      *)
(* spreadsheet of people, keeps the senior executives, splits their names, *)
(* infers an email domain from the company and writes two email guesses    *)
(* per person to a CSV file.                                               *)
(*                                                                         *)
(* Text is a sequence of characters; a character is a one-character        *)
(* string, with "U+00C9"/"U+00E9" standing for the non-ASCII letters       *)
(* E-acute / e-acute.  A cell of a frame is a text, a number or NaN.       *)
(***************************************************************************)
EXTENDS Integers, Sequences, FiniteSets, TLC

VARIABLES
    pc,        \* position of main(): which statement runs next
    sheet,     \* the input spreadsheet file (INPUT_FILE)
    df,        \* main's local variable df (final_df once projected)
    prev,      \* the frame the last completed stage was called with
    written,   \* number of lines to_csv has written so far (header included)
    outDir,    \* does OUTPUT_FILE.parent exist
    outFile,   \* the output file (OUTPUT_FILE)
    err,       \* the exception that ended the run and the statement that raised it
    stdout,    \* what main has printed
    company,   \* infer_domain's argument, when it is called on its own
    domain     \* infer_domain's return value, when it is called on its own

vars == <<pc, sheet, df, prev, written, outDir, outFile, err, stdout, company, domain>>

-----------------------------------------------------------------------------
(* Bounds of the model *)

\* longest spreadsheet enumerated row by row
MaxRows == 2
\* longest company string enumerated character by character
MaxLen == 3
\* how far past MAX_EXECUTIVES the long spreadsheets go
MaxExtra == 1

-----------------------------------------------------------------------------
(* Characters and text *)

ASCII_UPPER == <<"A", "B", "C", "D", "E", "F", "G", "H", "I", "J", "K", "L", "M",
                 "N", "O", "P", "Q", "R", "S", "T", "U", "V", "W", "X", "Y", "Z">>
ASCII_LOWER == <<"a", "b", "c", "d", "e", "f", "g", "h", "i", "j", "k", "l", "m",
                 "n", "o", "p", "q", "r", "s", "t", "u", "v", "w", "x", "y", "z">>
DIGITS == <<"0", "1", "2", "3", "4", "5", "6", "7", "8", "9">>

\* cased letters outside US-ASCII that str.lower() also maps
UNICODE_UPPER == <<"U+00C9">>
UNICODE_LOWER == <<"U+00E9">>

Range(s) == {s[i] : i \in DOMAIN s}

\* str.isspace(): the characters str.strip() removes
WHITESPACE == {" ", "\t"}

\* Python's str.lower(), one character
lower_char(c) ==
    LET U == ASCII_UPPER \o UNICODE_UPPER
        L == ASCII_LOWER \o UNICODE_LOWER
    IN  IF \E i \in DOMAIN U : U[i] = c
        THEN L[CHOOSE i \in DOMAIN U : U[i] = c]
        ELSE c

\* Python's str.lower()
str_lower(s) == [i \in 1..Len(s) |-> lower_char(s[i])]

\* Python's  sub in s  for strings
str_contains(sub, s) ==
    \E i \in 1..(Len(s) - Len(sub) + 1) : SubSeq(s, i, i + Len(sub) - 1) = sub

\* Python's str.strip(): drop leading and trailing whitespace
str_strip(s) ==
    LET keep == {i \in 1..Len(s) : s[i] \notin WHITESPACE}
    IN  IF keep = {} THEN <<>>
        ELSE LET first == CHOOSE i \in keep : \A j \in keep : i <= j
                 last == CHOOSE i \in keep : \A j \in keep : j <= i
             IN  SubSeq(s, first, last)

\* Python's s.split(" ", 1), which pandas' .str.split(" ", n=1) applies to
\* each text: cut at the first space character, at most one cut
str_split_space_1(s) ==
    LET at == {i \in 1..Len(s) : s[i] = " "}
    IN  IF at = {} THEN <<s>>
        ELSE LET i == CHOOSE i \in at : \A j \in at : i <= j
             IN  <<SubSeq(s, 1, i - 1), SubSeq(s, i + 1, Len(s))>>

\* Python's s.replace(" ", "")
str_remove_spaces(s) == SelectSeq(s, LAMBDA c : c # " ")

\* re_kept as the pattern [^\w ] would have it: every letter is kept, US-ASCII
\* or not
re_kept_any_letter(c) ==
    c \in Range(ASCII_LOWER) \cup Range(ASCII_UPPER) \cup Range(DIGITS) \cup {" "}
          \cup Range(UNICODE_UPPER) \cup Range(UNICODE_LOWER)

\* the characters the pattern [^a-zA-Z0-9 ] does not match
re_kept(c) == c \in Range(ASCII_LOWER) \cup Range(ASCII_UPPER) \cup Range(DIGITS) \cup {" "}

\* re.sub(r"[^a-zA-Z0-9 ]", "", s)
re_sub_non_alnum(s) == SelectSeq(s, re_kept)

-----------------------------------------------------------------------------
(* Cells and frames *)

Text(s) == [kind |-> "text", text |-> s, num |-> 0]
Num(n) == [kind |-> "num", text |-> <<>>, num |-> n]
NaN == [kind |-> "nan", text |-> <<>>, num |-> 0]

is_text(c) == c.kind = "text"
is_na(c) == c.kind = "nan"

\* a DataFrame: its column labels in order and its rows in order; a row
\* keeps its index label idx (the 1-based position in the spreadsheet) and
\* maps every column label to a cell
Frame(columns, rows) == [columns |-> columns, rows |-> rows]

\* result of a call: the exception raised ("" if none) and the value returned
Ok(frame) == [err |-> "", df |-> frame]
Raise(e) == [err |-> e, df |-> Frame(<<>>, <<>>)]

\* df[[c1, c2, ...]]: the frame restricted to the listed columns
select_columns(frame, columns) ==
    Frame(columns,
          [i \in 1..Len(frame.rows) |->
              [idx |-> frame.rows[i].idx,
               cells |-> [c \in Range(columns) |-> frame.rows[i].cells[c]]]])

\* df[col] = values: add (or replace) a column, values given per row position
assign_column(frame, col, values) ==
    Frame(IF col \in Range(frame.columns) THEN frame.columns
          ELSE Append(frame.columns, col),
          [i \in 1..Len(frame.rows) |->
              [idx |-> frame.rows[i].idx,
               cells |-> (col :> values[i]) @@ frame.rows[i].cells]])

\* dropna(subset=cols): drop the rows with NaN in any of the columns
dropna(frame, cols) ==
    Frame(frame.columns,
          SelectSeq(frame.rows, LAMBDA r : \A c \in cols : ~is_na(r.cells[c])))

\* the .str accessor refuses a non-empty column that holds no text at all
str_accessor_ok(frame, col) ==
    frame.rows = <<>> \/ \E i \in DOMAIN frame.rows : is_text(frame.rows[i].cells[col])

-----------------------------------------------------------------------------
(* Configuration *)

MAX_EXECUTIVES == 50

\* the values read_excel reads as missing (pandas' default NA strings; the
\* reader hands a blank cell over as the empty string)
STR_NA_VALUES == {<<>>, <<"N", "A">>}

-----------------------------------------------------------------------------
(* Step 1: load data *)

\* pd.read_excel(file_path): the sheet as a frame, NA strings read as NaN
read_excel(file) ==
    IF ~file.exists THEN Raise("FileNotFoundError")
    ELSE Ok(Frame(file.columns,
                  [i \in 1..Len(file.rows) |->
                      [idx |-> i,
                       cells |-> [c \in Range(file.columns) |->
                                     IF is_text(file.rows[i][c])
                                        /\ file.rows[i][c].text \in STR_NA_VALUES
                                     THEN NaN ELSE file.rows[i][c]]]]))

\* load_data without its dropna()
load_data_keeping_na(file_path) ==
    LET wanted == <<"Name", "Title", "Company">>
        read == read_excel(file_path)
    IN  IF read.err # "" THEN read
        ELSE IF ~(Range(wanted) \subseteq Range(read.df.columns)) THEN Raise("KeyError")
        ELSE Ok(select_columns(read.df, wanted))

load_data(file_path) ==
    LET wanted == <<"Name", "Title", "Company">>
        read == read_excel(file_path)
    IN  IF read.err # "" THEN read
        ELSE IF ~(Range(wanted) \subseteq Range(read.df.columns)) THEN Raise("KeyError")
        ELSE Ok(dropna(select_columns(read.df, wanted), Range(wanted)))

-----------------------------------------------------------------------------
(* Step 2: filter senior executives *)

senior_keywords ==
    << <<"c", "h", "i", "e", "f">>, <<"c", "e", "o">>, <<"c", "m", "o">>,
       <<"c", "t", "o">>, <<"c", "f", "o">>, <<"c", "o", "o">>,
       <<"p", "r", "e", "s", "i", "d", "e", "n", "t">>,
       <<"f", "o", "u", "n", "d", "e", "r">>,
       <<"c", "o", "-", "f", "o", "u", "n", "d", "e", "r">>,
       <<"e", "v", "p">>, <<"s", "v", "p">> >>

\* the lambda of line 41 matching whole words only: the keyword must be
\* delimited by spaces or the ends of the title
any_keyword_as_word(title) ==
    \E k \in DOMAIN senior_keywords : \E i \in 1..(Len(title) - Len(senior_keywords[k]) + 1) :
        LET j == i + Len(senior_keywords[k]) - 1
        IN  /\ SubSeq(title, i, j) = senior_keywords[k]
            /\ (i = 1 \/ title[i - 1] = " ")
            /\ (j = Len(title) \/ title[j + 1] = " ")

\* the lambda of line 41, applied to an already lowercased title
any_keyword_in(title) ==
    \E k \in DOMAIN senior_keywords : str_contains(senior_keywords[k], title)

\* the value of is_senior for one title (line 40)
is_senior(title) == any_keyword_in(str_lower(title))

Bool(b) == [kind |-> "bool", text |-> <<>>, num |-> IF b THEN 1 ELSE 0]

\* drop(columns=[col])
drop_column(frame, col) ==
    LET left == SelectSeq(frame.columns, LAMBDA c : c # col)
    IN  select_columns(frame, left)

\* .str.lower() turns a non-text title into NaN, on which  keyword in title
\* raises TypeError; on an empty frame apply returns an empty object column,
\* which df[...] takes for a list of no column labels, so that the drop of
\* is_senior then raises KeyError
filter_senior_execs(frame) ==
    IF ~str_accessor_ok(frame, "Title") THEN Raise("AttributeError")
    ELSE IF \E i \in DOMAIN frame.rows : ~is_text(frame.rows[i].cells["Title"])
    THEN Raise("TypeError")
    ELSE IF frame.rows = <<>> THEN Raise("KeyError")
    ELSE LET flagged == assign_column(frame, "is_senior",
                            [i \in 1..Len(frame.rows) |->
                                Bool(is_senior(frame.rows[i].cells["Title"].text))])
             senior_df == Frame(flagged.columns,
                                SelectSeq(flagged.rows,
                                          LAMBDA r : r.cells["is_senior"] = Bool(TRUE)))
         IN  Ok(drop_column(senior_df, "is_senior"))

-----------------------------------------------------------------------------
(* Step 3: normalize names *)

\* one row of  df["Name"].str.strip().str.split(" ", n=1, expand=True)
\* before padding: the parts of the name, none for a name that is no text
name_parts(cell) ==
    IF is_text(cell) THEN str_split_space_1(str_strip(cell.text)) ELSE <<>>

\* the number of columns of name_split: the most parts any row has
name_split_width(frame) ==
    LET lens == {Len(name_parts(frame.rows[i].cells["Name"])) : i \in DOMAIN frame.rows}
    IN  IF lens = {} THEN 0 ELSE CHOOSE n \in lens : \A m \in lens : m <= n

\* name_split[k] for one row (k counted from 1): NaN/None where the row is short
name_split_cell(cell, k) ==
    IF Len(name_parts(cell)) >= k THEN Text(name_parts(cell)[k]) ELSE NaN

split_names(frame) ==
    IF ~str_accessor_ok(frame, "Name") THEN Raise("AttributeError")
    ELSE IF name_split_width(frame) < 2 THEN Raise("KeyError")
    ELSE LET first == assign_column(frame, "FirstName",
                          [i \in 1..Len(frame.rows) |->
                              name_split_cell(frame.rows[i].cells["Name"], 1)])
             last == assign_column(first, "LastName",
                          [i \in 1..Len(frame.rows) |->
                              name_split_cell(frame.rows[i].cells["Name"], 2)])
         IN  Ok(dropna(last, {"LastName"}))

-----------------------------------------------------------------------------
(* Step 4: infer email domain *)

DOT_COM == <<".", "c", "o", "m">>

\* infer_domain with a pattern that also keeps the dot
infer_domain_keeping_dots(company_) ==
    LET cleaned == SelectSeq(company_, LAMBDA c : re_kept(c) \/ c = ".")
        domain_ == str_remove_spaces(str_lower(cleaned))
    IN  domain_ \o DOT_COM

infer_domain(company_) ==
    LET cleaned == re_sub_non_alnum(company_)
        domain_ == str_remove_spaces(str_lower(cleaned))
    IN  domain_ \o DOT_COM

\* re.sub raises TypeError on a company that is no text
add_domains(frame) ==
    IF \E i \in DOMAIN frame.rows : ~is_text(frame.rows[i].cells["Company"])
    THEN Raise("TypeError")
    ELSE Ok(assign_column(frame, "Domain",
                [i \in 1..Len(frame.rows) |->
                    Text(infer_domain(frame.rows[i].cells["Company"].text))]))

-----------------------------------------------------------------------------
(* Step 5: generate emails *)

\* .str.lower() of one cell
cell_lower(cell) == IF is_text(cell) THEN Text(str_lower(cell.text)) ELSE NaN

\* + of two cells of text columns (NaN if either is)
cell_add(a, b) ==
    IF is_text(a) /\ is_text(b) THEN Text(a.text \o b.text) ELSE NaN

\* Email_1 with the last name as typed, not lowercased
email_1_last_as_typed(row) ==
    cell_add(cell_add(cell_add(cell_add(cell_lower(row.cells["FirstName"]), Text(<<".">>)),
                               row.cells["LastName"]),
                      Text(<<"@">>)),
             row.cells["Domain"])

email_1(row) ==
    cell_add(cell_add(cell_add(cell_add(cell_lower(row.cells["FirstName"]), Text(<<".">>)),
                               cell_lower(row.cells["LastName"])),
                      Text(<<"@">>)),
             row.cells["Domain"])

email_2(row) ==
    cell_add(cell_add(cell_lower(row.cells["FirstName"]), Text(<<"@">>)),
             row.cells["Domain"])

generate_emails(frame) ==
    LET one == assign_column(frame, "Email_1",
                   [i \in 1..Len(frame.rows) |-> email_1(frame.rows[i])])
    IN  Ok(assign_column(one, "Email_2",
               [i \in 1..Len(frame.rows) |-> email_2(frame.rows[i])]))

-----------------------------------------------------------------------------
(* Step 6: final columns, row limit, export *)

FINAL_COLUMNS == <<"FirstName", "LastName", "Title", "Company", "Email_1", "Email_2">>

\* tail(n) in the place of head(n): the last n rows
head_from_the_end(frame, n) ==
    Frame(frame.columns,
          SubSeq(frame.rows,
                 IF Len(frame.rows) < n THEN 1 ELSE Len(frame.rows) - n + 1,
                 Len(frame.rows)))

\* head(n)
head(frame, n) ==
    Frame(frame.columns,
          SubSeq(frame.rows, 1, IF Len(frame.rows) < n THEN Len(frame.rows) ELSE n))

select_final(frame) == head(select_columns(frame, FINAL_COLUMNS), MAX_EXECUTIVES)

\* line k of the CSV text of a frame: the header, then one line per row
\* (index=False), each line the texts of its fields in column order
csv_cell(cell) ==
    IF is_text(cell) THEN cell.text
    ELSE IF is_na(cell) THEN <<>> ELSE <<DIGITS[cell.num + 1]>>

csv_line(frame, k) ==
    IF k = 1 THEN frame.columns
    ELSE [j \in 1..Len(frame.columns) |-> csv_cell(frame.rows[k - 1].cells[frame.columns[j]])]

csv_length(frame) == Len(frame.rows) + 1

-----------------------------------------------------------------------------
(* The spreadsheets the model runs on *)

SHEET_COLUMNS == <<"Name", "Title", "Company", "Notes">>

ROW_JANE ==
    [Name |-> Text(<<"J", "a", "n", "e", " ", "D", "o", "e">>),
     Title |-> Text(<<"C", "h", "i", "e", "f", " ", "M", "a", "r", "k", "e", "t", "i", "n", "g", " ", "O", "f", "f", "i", "c", "e", "r">>),
     Company |-> Text(<<"W", "o", "r", "l", "d", " ", "S", "u", "r", "f", " ", "L", "e", "a", "g", "u", "e">>),
     Notes |-> Text(<<>>)]

ROW_ABC ==
    [Name |-> Text(<<"A", " ", "B", " ", "C">>),
     Title |-> Text(<<"V", "i", "c", "e", " ", "P", "r", "e", "s", "i", "d", "e", "n", "t", " ", "o", "f", " ", "E", "n", "g", "i", "n", "e", "e", "r", "i", "n", "g">>),
     Company |-> Text(<<"A", "T", "&", "T">>),
     Notes |-> Text(<<"x">>)]

ROW_BOB ==
    [Name |-> Text(<<"B", "o", "b">>),
     Title |-> Text(<<"C", "E", "O">>),
     Company |-> Text(<<"A", "c", "m", "e", ",", " ", "I", "n", "c", ".">>),
     Notes |-> Text(<<>>)]

ROW_ENGINEER ==
    [Name |-> Text(<<"A", "l", " ", "G", "o", "r", "e">>),
     Title |-> Text(<<"S", "o", "f", "t", "w", "a", "r", "e", " ", "E", "n", "g", "i", "n", "e", "e", "r">>),
     Company |-> Text(<<"W", "o", "r", "l", "d", " ", "S", "u", "r", "f", " ", "L", "e", "a", "g", "u", "e">>),
     Notes |-> Text(<<>>)]

ROW_DOUBLE_SPACE ==
    [Name |-> Text(<<"A", "l", " ", " ", "G", "o", "r", "e">>),
     Title |-> Text(<<"C", "o", "f", "o", "u", "n", "d", "e", "r">>),
     Company |-> Text(<<"C", "a", "f", "U+00E9", " ", "9">>),
     Notes |-> Text(<<>>)]

ROW_TAB ==
    [Name |-> Text(<<"A", "\t", "B">>),
     Title |-> Text(<<"S", "V", "P", " ", "S", "a", "l", "e", "s">>),
     Company |-> Text(<<"A", "T", "&", "T">>),
     Notes |-> Text(<<>>)]

ROW_PADDED ==
    [Name |-> Text(<<" ", "U+00C9", "d", "i", "t", "h", " ", "P", "i", "a", "f", " ">>),
     Title |-> Text(<<"c", "e", "o">>),
     Company |-> Text(<<"&">>),
     Notes |-> Text(<<>>)]

ROW_NO_NAME ==
    [Name |-> Text(<<>>),
     Title |-> Text(<<"C", "E", "O">>),
     Company |-> Text(<<"A", "T", "&", "T">>),
     Notes |-> Text(<<"x">>)]

ROW_NO_TITLE ==
    [Name |-> Text(<<"J", "a", "n", "e", " ", "D", "o", "e">>),
     Title |-> Text(<<>>),
     Company |-> Text(<<"A", "T", "&", "T">>),
     Notes |-> Text(<<>>)]

ROW_NA_COMPANY ==
    [Name |-> Text(<<"J", "a", "n", "e", " ", "D", "o", "e">>),
     Title |-> Text(<<"C", "E", "O">>),
     Company |-> Text(<<"N", "A">>),
     Notes |-> Text(<<>>)]

ROW_NUM_TITLE ==
    [Name |-> Text(<<"J", "a", "n", "e", " ", "D", "o", "e">>),
     Title |-> Num(7),
     Company |-> Text(<<"A", "T", "&", "T">>),
     Notes |-> Text(<<>>)]

ROW_NUM_COMPANY ==
    [Name |-> Text(<<"A", " ", "B", " ", "C">>),
     Title |-> Text(<<"C", "E", "O">>),
     Company |-> Num(7),
     Notes |-> Text(<<>>)]

ROW_NUM_NAME ==
    [Name |-> Num(7),
     Title |-> Text(<<"C", "E", "O">>),
     Company |-> Text(<<"A", "T", "&", "T">>),
     Notes |-> Text(<<>>)]

RowPool ==
    {ROW_JANE, ROW_ABC, ROW_BOB, ROW_ENGINEER, ROW_DOUBLE_SPACE, ROW_TAB, ROW_PADDED,
     ROW_NO_NAME, ROW_NO_TITLE, ROW_NA_COMPANY, ROW_NUM_TITLE, ROW_NUM_COMPANY,
     ROW_NUM_NAME}

\* the rows a long spreadsheet repeats: two in three survive every stage
LongCycle == <<ROW_JANE, ROW_ENGINEER, ROW_ABC, ROW_PADDED, ROW_BOB, ROW_DOUBLE_SPACE>>

LongRows(n) == [i \in 1..n |-> LongCycle[((i - 1) % Len(LongCycle)) + 1]]

\* lengths that leave just under, exactly and just over MAX_EXECUTIVES rows
LongLengths ==
    {n \in 1..(2 * MAX_EXECUTIVES) : (2 * n) \div 3 \in (MAX_EXECUTIVES - 1)..(MAX_EXECUTIVES + MaxExtra)}

SheetFile(columns, rows) == [exists |-> TRUE, columns |-> columns, rows |-> rows]

ShortSheets ==
    {SheetFile(SHEET_COLUMNS, rows) :
        rows \in UNION {[1..n -> RowPool] : n \in 0..MaxRows}}

LongSheets == {SheetFile(SHEET_COLUMNS, LongRows(n)) : n \in LongLengths}

\* a missing input file, and a sheet without the Company column
MissingFile == [exists |-> FALSE, columns |-> <<>>, rows |-> <<>>]

SheetWithoutCompany ==
    SheetFile(<<"Name", "Title">>,
              <<[Name |-> ROW_JANE.Name, Title |-> ROW_JANE.Title]>>)

Sheets == ShortSheets \cup LongSheets \cup {MissingFile, SheetWithoutCompany}

\* the output file before the run: absent, or left over from an earlier run
NoFile == [exists |-> FALSE, lines |-> <<>>]
StaleFile == [exists |-> TRUE, lines |-> << <<"s", "t", "a", "l", "e">> >>]

EmptyFrame == Frame(<<>>, <<>>)

NoError == [type |-> "", at |-> ""]

-----------------------------------------------------------------------------
(* main() *)

Init ==
    /\ pc = "load_data"
    /\ sheet \in Sheets
    /\ df = EmptyFrame
    /\ prev = EmptyFrame
    /\ written = 0
    /\ outDir \in BOOLEAN
    /\ outFile \in {NoFile, StaleFile}
    /\ outFile.exists => outDir
    /\ err = NoError
    /\ stdout = <<>>
    /\ company = <<>>
    /\ domain = <<>>

\* an exception nobody catches ends the run
Fail(e) ==
    /\ pc' = "failed"
    /\ err' = [type |-> e, at |-> pc]

\* one statement  df = stage(...)  of main: run the stage, keep its result
\* or end on its exception
RunStage(at, result, argument, next) ==
    /\ pc = at
    /\ IF result.err # ""
       THEN /\ Fail(result.err)
            /\ UNCHANGED <<df, prev>>
       ELSE /\ pc' = next
            /\ df' = result.df
            /\ prev' = argument
            /\ UNCHANGED err
    /\ UNCHANGED <<sheet, written, outDir, outFile, stdout, company, domain>>

LoadData == RunStage("load_data", load_data(sheet), EmptyFrame, "filter_senior_execs")

FilterSeniorExecs == RunStage("filter_senior_execs", filter_senior_execs(df), df, "split_names")

SplitNames == RunStage("split_names", split_names(df), df, "add_domains")

AddDomains == RunStage("add_domains", add_domains(df), df, "generate_emails")

GenerateEmails == RunStage("generate_emails", generate_emails(df), df, "select_final")

SelectFinal == RunStage("select_final", Ok(select_final(df)), df, "mkdir")

\* OUTPUT_FILE.parent.mkdir(parents=True, exist_ok=True)
Mkdir ==
    /\ pc = "mkdir"
    /\ pc' = "to_csv"
    /\ outDir' = TRUE
    /\ UNCHANGED <<sheet, df, prev, written, outFile, err, stdout, company, domain>>

\* the directory cannot be created (OSError)
MkdirFails ==
    /\ pc = "mkdir"
    /\ ~outDir
    /\ Fail("OSError")
    /\ UNCHANGED <<sheet, df, prev, written, outDir, outFile, stdout, company, domain>>

\* to_csv opens OUTPUT_FILE for writing: the file is created or truncated
ToCsvOpen ==
    /\ pc = "to_csv"
    /\ pc' = "to_csv_write"
    /\ outFile' = [exists |-> TRUE, lines |-> <<>>]
    /\ written' = 0
    /\ UNCHANGED <<sheet, df, prev, outDir, err, stdout, company, domain>>

\* to_csv writes the next line: the header first, then the rows in order
ToCsvWrite ==
    /\ pc = "to_csv_write"
    /\ written < csv_length(df)
    /\ outFile' = [outFile EXCEPT !.lines = Append(@, csv_line(df, written + 1))]
    /\ written' = written + 1
    /\ UNCHANGED <<pc, sheet, df, prev, outDir, err, stdout, company, domain>>

\* to_csv is done and closes the file
ToCsvClose ==
    /\ pc = "to_csv_write"
    /\ written = csv_length(df)
    /\ pc' = "print"
    /\ UNCHANGED <<sheet, df, prev, written, outDir, outFile, err, stdout, company, domain>>

\* the open or a write fails (OSError: no permission, disk full)
ToCsvFails ==
    /\ \/ pc = "to_csv"
       \/ pc = "to_csv_write" /\ written < csv_length(df)
    /\ Fail("OSError")
    /\ UNCHANGED <<sheet, df, prev, written, outDir, outFile, stdout, company, domain>>

\* the two print statements
PrintSummary ==
    /\ pc = "print"
    /\ pc' = "done"
    /\ stdout' = <<Len(df.rows), "OUTPUT_FILE">>
    /\ UNCHANGED <<sheet, df, prev, written, outDir, outFile, err, company, domain>>

Next ==
    \/ LoadData
    \/ FilterSeniorExecs
    \/ SplitNames
    \/ AddDomains
    \/ GenerateEmails
    \/ SelectFinal
    \/ Mkdir
    \/ MkdirFails
    \/ ToCsvOpen
    \/ ToCsvWrite
    \/ ToCsvClose
    \/ ToCsvFails
    \/ PrintSummary

Spec == Init /\ [][Next]_vars

-----------------------------------------------------------------------------
(* infer_domain called on its own: every short company string, once and    *)
(* then once more on the result                                            *)

CompanyAlphabet == {"A", "t", " ", "&", "7", ".", "U+00C9"}

AT_T == <<"A", "T", "&", "T">>
WORLD_SURF_LEAGUE == <<"W", "o", "r", "l", "d", " ", "S", "u", "r", "f", " ", "L", "e", "a", "g", "u", "e">>
ACME_INC == <<"A", "c", "m", "e", ",", " ", "I", "n", "c", ".">>

Companies ==
    UNION {[1..n -> CompanyAlphabet] : n \in 0..MaxLen}
        \cup {AT_T, WORLD_SURF_LEAGUE, ACME_INC}

InitDomain ==
    /\ pc = "infer_domain"
    /\ company \in Companies
    /\ domain = <<>>
    /\ sheet = MissingFile
    /\ df = EmptyFrame
    /\ prev = EmptyFrame
    /\ written = 0
    /\ outDir = FALSE
    /\ outFile = NoFile
    /\ err = NoError
    /\ stdout = <<>>

InferDomain ==
    /\ pc = "infer_domain"
    /\ pc' = "inferred"
    /\ domain' = infer_domain(company)
    /\ UNCHANGED <<sheet, df, prev, written, outDir, outFile, err, stdout, company>>

InferDomainAgain ==
    /\ pc = "inferred"
    /\ pc' = "inferred_again"
    /\ company' = domain
    /\ domain' = infer_domain(domain)
    /\ UNCHANGED <<sheet, df, prev, written, outDir, outFile, err, stdout>>

NextDomain ==
    \/ InferDomain
    \/ InferDomainAgain

SpecDomain == InitDomain /\ [][NextDomain]_vars

-----------------------------------------------------------------------------
(* Vocabulary of the properties *)

\* the index labels of a frame, in row order
Indices(frame) == [i \in 1..Len(frame.rows) |-> frame.rows[i].idx]

KW_chief == <<"c", "h", "i", "e", "f">>
KW_ceo == <<"c", "e", "o">>
KW_cmo == <<"c", "m", "o">>
KW_cto == <<"c", "t", "o">>
KW_cfo == <<"c", "f", "o">>
KW_coo == <<"c", "o", "o">>
KW_president == <<"p", "r", "e", "s", "i", "d", "e", "n", "t">>
KW_founder == <<"f", "o", "u", "n", "d", "e", "r">>
KW_cofounder == <<"c", "o", "-", "f", "o", "u", "n", "d", "e", "r">>
KW_evp == <<"e", "v", "p">>
KW_svp == <<"s", "v", "p">>

KeywordSet ==
    {KW_chief, KW_ceo, KW_cmo, KW_cto, KW_cfo, KW_coo, KW_president, KW_founder,
     KW_cofounder, KW_evp, KW_svp}

\* k occurs in s right after position a
OccursAt(k, s, a) == a + Len(k) <= Len(s) /\ \A j \in 1..Len(k) : s[a + j] = k[j]

\* the lowercased title contains a keyword as a substring
TitleMatches(title) ==
    LET lowered == str_lower(title)
    IN  \E k \in KeywordSet : \E a \in 0..Len(title) : OccursAt(k, lowered, a)

VICE_PRESIDENT == <<"V", "i", "c", "e", " ", "P", "r", "e", "s", "i", "d", "e", "n", "t", " ", "o", "f", " ", "E", "n", "g", "i", "n", "e", "e", "r", "i", "n", "g">>
SOFTWARE_ENGINEER == <<"S", "o", "f", "t", "w", "a", "r", "e", " ", "E", "n", "g", "i", "n", "e", "e", "r">>

\* tokens of a name: maximal runs of non-whitespace characters
TokenStarts(s) ==
    {i \in 1..Len(s) : s[i] \notin WHITESPACE /\ (i = 1 \/ s[i - 1] \in WHITESPACE)}

TokenCount(s) == Cardinality(TokenStarts(s))

\* the first token, and what follows the whitespace run after it up to the
\* last non-whitespace character
FirstToken(s) ==
    LET a == CHOOSE i \in TokenStarts(s) : \A j \in TokenStarts(s) : i <= j
        b == CHOOSE i \in a..Len(s) :
                 /\ (i = Len(s) \/ s[i + 1] \in WHITESPACE)
                 /\ \A j \in a..i : s[j] \notin WHITESPACE
    IN  SubSeq(s, a, b)

RestAfterFirstToken(s) ==
    LET rest == TokenStarts(s) \ {CHOOSE i \in TokenStarts(s) : \A j \in TokenStarts(s) : i <= j}
        a == CHOOSE i \in rest : \A j \in rest : i <= j
        ends == {i \in 1..Len(s) : s[i] \notin WHITESPACE}
        b == CHOOSE i \in ends : \A j \in ends : j <= i
    IN  SubSeq(s, a, b)

IsAsciiLetterDigitOrSpace(c) ==
    \/ \E i \in 1..26 : c = ASCII_UPPER[i] \/ c = ASCII_LOWER[i]
    \/ \E i \in 1..10 : c = DIGITS[i]
    \/ c = " "

\* delete what is no US-ASCII letter, digit or space; lowercase; delete the
\* spaces; append ".com"
ExpectedDomain(c) ==
    LET stripped == SelectSeq(c, IsAsciiLetterDigitOrSpace)
        lowered == str_lower(stripped)
        joined == SelectSeq(lowered, LAMBDA x : x # " ")
    IN  joined \o <<".", "c", "o", "m">>

IsUppercase(c) == c \in Range(ASCII_UPPER) \cup Range(UNICODE_UPPER)

\* a spreadsheet cell that is missing or empty
IsMissing(cell) == is_text(cell) /\ cell.text = <<>>

COFOUNDER == <<"C", "o", "f", "o", "u", "n", "d", "e", "r">>
ATT_COM == <<"a", "t", "t", ".", "c", "o", "m">>
ATTCOM_COM == <<"a", "t", "t", "c", "o", "m", ".", "c", "o", "m">>
WSL_COM == <<"w", "o", "r", "l", "d", "s", "u", "r", "f", "l", "e", "a", "g", "u", "e", ".", "c", "o", "m">>
JANE_DOE == <<"J", "a", "n", "e", " ", "D", "o", "e">>
JANE_EMAIL_1 == <<"j", "a", "n", "e", ".", "d", "o", "e", "@", "w", "o", "r", "l", "d", "s", "u", "r", "f", "l", "e", "a", "g", "u", "e", ".", "c", "o", "m">>
JANE_EMAIL_2 == <<"j", "a", "n", "e", "@", "w", "o", "r", "l", "d", "s", "u", "r", "f", "l", "e", "a", "g", "u", "e", ".", "c", "o", "m">>

Min(a, b) == IF a < b THEN a ELSE b

-----------------------------------------------------------------------------
(* Properties *)

\* C1: when filter_senior_execs has returned, the rows it returned are
\* exactly the rows it was given whose lowercased Title contains a keyword
\* as a substring: each returned row matches and is a row it was given,
\* unchanged; each given row that matches is returned; "Vice President of
\* Engineering" is retained and "Software Engineer" is excluded.
FilterRetainsExactlyMatching ==
    pc = "split_names" =>
        /\ \A i \in DOMAIN df.rows :
              /\ TitleMatches(df.rows[i].cells["Title"].text)
              /\ df.rows[i] \in Range(prev.rows)
        /\ \A i \in DOMAIN prev.rows :
              LET title == prev.rows[i].cells["Title"].text
              IN  /\ TitleMatches(title) => prev.rows[i] \in Range(df.rows)
                  /\ title = VICE_PRESIDENT => prev.rows[i] \in Range(df.rows)
                  /\ title = SOFTWARE_ENGINEER => prev.rows[i] \notin Range(df.rows)

\* C1 witness: the filter has returned from a frame holding a title that
\* matches only inside a longer word ("Cofounder"), which it kept, and a
\* "Software Engineer", which it dropped.
FilterKeptSubstringMatch ==
    /\ pc = "split_names"
    /\ \E i \in DOMAIN df.rows : df.rows[i].cells["Title"].text = COFOUNDER
    /\ \E i \in DOMAIN prev.rows :
          /\ prev.rows[i].cells["Title"].text = SOFTWARE_ENGINEER
          /\ prev.rows[i] \notin Range(df.rows)

\* C2: when split_names has returned, every row whose Name has at least two
\* tokens has FirstName = the first whitespace-delimited token and LastName =
\* the remainder after the whitespace run that follows it, whatever
\* whitespace separates the first two tokens.
SplitOnFirstWhitespaceRun ==
    pc = "add_domains" =>
        \A i \in DOMAIN df.rows :
            LET name == df.rows[i].cells["Name"].text
            IN  TokenCount(name) >= 2 =>
                    /\ df.rows[i].cells["FirstName"] = Text(FirstToken(name))
                    /\ df.rows[i].cells["LastName"] = Text(RestAfterFirstToken(name))

\* C3: split_names drops every row whose Name has a single token and no row
\* whose Name has two or more tokens, and every row it returns has a
\* LastName: it returns (it does not raise) on text names, and what it
\* returns holds exactly the rows with two or more tokens.
SplitDropsExactlySingleToken ==
    /\ pc = "add_domains" =>
          /\ \A i \in DOMAIN prev.rows :
                LET name == prev.rows[i].cells["Name"]
                    kept == prev.rows[i].idx \in Range(Indices(df))
                IN  is_text(name) =>
                        /\ TokenCount(name.text) = 1 => ~kept
                        /\ TokenCount(name.text) >= 2 => kept
          /\ \A i \in DOMAIN df.rows : is_text(df.rows[i].cells["LastName"])
    /\ ~ /\ pc = "failed"
         /\ err.at = "split_names"
         /\ df.rows # <<>>
         /\ \A i \in DOMAIN df.rows : is_text(df.rows[i].cells["Name"])

\* C4: infer_domain returns the company with every character that is not a
\* US-ASCII letter, digit or space deleted, lowercased, the spaces deleted
\* and ".com" appended; so the result is a run of lowercase ASCII letters
\* and digits followed by ".com" ("AT&T" gives "att.com", "World Surf
\* League" gives "worldsurfleague.com", no letter or digit gives ".com").
InferDomainContract ==
    pc = "inferred" =>
        /\ domain = ExpectedDomain(company)
        /\ Len(domain) >= 4
        /\ SubSeq(domain, Len(domain) - 3, Len(domain)) = <<".", "c", "o", "m">>
        /\ \A i \in 1..(Len(domain) - 4) :
              domain[i] \in Range(ASCII_LOWER) \cup Range(DIGITS)
        /\ company = AT_T => domain = ATT_COM
        /\ company = WORLD_SURF_LEAGUE => domain = WSL_COM
        /\ (\A i \in DOMAIN company :
               company[i] \notin Range(ASCII_LOWER) \cup Range(ASCII_UPPER) \cup Range(DIGITS))
           => domain = <<".", "c", "o", "m">>

\* C4 witness: infer_domain has returned "att.com" for "AT&T".
InferredAttCom ==
    /\ pc = "inferred"
    /\ company = AT_T
    /\ domain = ATT_COM

\* C5 as stated: infer_domain applied to its own result returns that result
\* (company holds the first result, domain the second).
InferDomainIdempotent ==
    pc = "inferred_again" => domain = company

\* C5 amended: infer_domain applied to its own result d returns d with the
\* dot of its ".com" suffix deleted and ".com" appended again, which is
\* never d itself.
InferDomainReapplied ==
    pc = "inferred_again" =>
        /\ domain = SubSeq(company, 1, Len(company) - 4) \o <<"c", "o", "m", ".", "c", "o", "m">>
        /\ domain # company

\* C5 witness: infer_domain has been applied to "att.com" and returned
\* "attcom.com".
ReappliedToAttCom ==
    /\ pc = "inferred_again"
    /\ company = ATT_COM
    /\ domain = ATTCOM_COM

\* C6: when generate_emails has returned, every row has Email_1 =
\* lowercase(FirstName) + "." + lowercase(LastName) + "@" + Domain and
\* Email_2 = lowercase(FirstName) + "@" + Domain with Domain the domain
\* inferred from the row's own Company, neither email holds an uppercase
\* letter, and the rows are the rows it was given, all of them, in order.
EmailsFollowFormat ==
    pc = "select_final" =>
        /\ Indices(df) = Indices(prev)
        /\ \A i \in DOMAIN df.rows :
              LET c == df.rows[i].cells
                  first == str_lower(c["FirstName"].text)
                  last == str_lower(c["LastName"].text)
              IN  /\ c["Domain"] = Text(ExpectedDomain(c["Company"].text))
                  /\ c["Email_1"] = Text(first \o <<".">> \o last \o <<"@">> \o c["Domain"].text)
                  /\ c["Email_2"] = Text(first \o <<"@">> \o c["Domain"].text)
                  /\ \A j \in DOMAIN c["Email_1"].text : ~IsUppercase(c["Email_1"].text[j])
                  /\ \A j \in DOMAIN c["Email_2"].text : ~IsUppercase(c["Email_2"].text[j])
                  /\ c["Name"].text = JANE_DOE /\ c["Company"].text = WORLD_SURF_LEAGUE =>
                        /\ c["Email_1"].text = JANE_EMAIL_1
                        /\ c["Email_2"].text = JANE_EMAIL_2

\* C6 witness: generate_emails has returned two rows with the same Email_2
\* (jane@worldsurfleague.com), both kept.
EmailsCollide ==
    /\ pc = "select_final"
    /\ Len(df.rows) = 2
    /\ df.rows[1].cells["Email_2"] = Text(JANE_EMAIL_2)
    /\ df.rows[2].cells["Email_2"] = Text(JANE_EMAIL_2)
    /\ df.rows[1].cells["Email_1"] = Text(JANE_EMAIL_1)

\* the rows of the spreadsheet that no stage drops, in spreadsheet order:
\* all three fields present, a title that matches, a name that splits
SurvivingIndices ==
    {i \in DOMAIN sheet.rows :
        /\ \A c \in {"Name", "Title", "Company"} :
              ~(is_text(sheet.rows[i][c]) /\ sheet.rows[i][c].text \in STR_NA_VALUES)
        /\ is_text(sheet.rows[i].Title) /\ TitleMatches(sheet.rows[i].Title.text)
        /\ is_text(sheet.rows[i].Name)
        /\ LET trimmed == str_strip(sheet.rows[i].Name.text)
           IN  \E j \in DOMAIN trimmed : trimmed[j] = " "}

\* C7: after a successful run the output file holds the header and exactly
\* the first min(MAX_EXECUTIVES, n) of the n surviving rows, in spreadsheet
\* order: never more than MAX_EXECUTIVES rows, and row k of the output is
\* the k-th surviving row of the spreadsheet.
OutputIsFirstSurvivors ==
    pc = "done" =>
        LET surviving == SurvivingIndices
            n == Cardinality(surviving)
            m == Min(MAX_EXECUTIVES, n)
        IN  /\ Len(outFile.lines) = m + 1
            /\ m <= MAX_EXECUTIVES
            /\ stdout[1] = m
            /\ \A k \in 1..m :
                  LET i == df.rows[k].idx
                  IN  /\ i \in surviving
                      /\ Cardinality({j \in surviving : j <= i}) = k
                      /\ outFile.lines[k + 1][3] = sheet.rows[i].Title.text
                      /\ outFile.lines[k + 1][4] = sheet.rows[i].Company.text

\* C7 witness: a run has succeeded on a spreadsheet with more than
\* MAX_EXECUTIVES surviving rows, among rows that were dropped.
OutputWasTruncated ==
    /\ pc = "done"
    /\ Cardinality(SurvivingIndices) > MAX_EXECUTIVES
    /\ Cardinality(SurvivingIndices) < Len(sheet.rows)
    /\ Len(outFile.lines) = MAX_EXECUTIVES + 1

\* C8: once load_data has returned, no frame of the run (and so no line of
\* the output file) holds a row of the spreadsheet in which Name, Title or
\* Company is missing or empty, and the three fields of every row are
\* non-empty.
MissingRowsNeverDownstream ==
    (pc # "load_data" /\ err.at # "load_data") =>
        /\ \A i \in DOMAIN df.rows : \A c \in {"Name", "Title", "Company"} :
              /\ ~IsMissing(sheet.rows[df.rows[i].idx][c])
              /\ c \in DOMAIN df.rows[i].cells =>
                    /\ ~is_na(df.rows[i].cells[c])
                    /\ df.rows[i].cells[c] # Text(<<>>)
        /\ \A i \in DOMAIN prev.rows : \A c \in {"Name", "Title", "Company"} :
              ~IsMissing(sheet.rows[prev.rows[i].idx][c])
        /\ pc \in {"to_csv_write", "print", "done"} =>
              /\ Len(outFile.lines) <= Len(df.rows) + 1
              /\ \A k \in 2..Len(outFile.lines) :
                    /\ outFile.lines[k][3] = sheet.rows[df.rows[k - 1].idx].Title.text
                    /\ outFile.lines[k][4] = sheet.rows[df.rows[k - 1].idx].Company.text

\* C8 witness: a run has succeeded and written a row although the
\* spreadsheet also held a row with a missing field.
RanPastMissingRow ==
    /\ pc = "done"
    /\ Len(outFile.lines) = 2
    /\ \E i \in DOMAIN sheet.rows : \E c \in {"Name", "Title", "Company"} :
          IsMissing(sheet.rows[i][c])

\* C9: in every run that fails, at whatever step, the output file is neither
\* created nor modified (it is still absent, or still what the earlier run
\* left).
NoOutputOnFailure ==
    pc = "failed" => outFile \in {NoFile, StaleFile}

\* C10: filter_senior_execs raises no error on any record set load_data
\* returns, whatever non-missing values its Title cells hold.
FilterNeverRaises ==
    ~ /\ pc = "failed"
      /\ err.at = "filter_senior_execs"
      /\ df.rows # <<>>

====
